---- MODULE Spec2Model ----
(***************************************************************************)
(* Model of ai-commit.js (class AICommitCLI): one run of the CLI against a *)
(* git repository, a configuration file, the text-generation API and the  *)
(* terminal.  Texts (messages, paths, git output) are sequences of         *)
(* one-character strings, so that trim/split/substring/replace and the     *)
(* shell's unquoting are computed character by character as the code does. *)
(***************************************************************************)
EXTENDS Integers, Sequences, FiniteSets, TLC

\* ------------------------------------------------------------------ bounds

\* longest text a user types at the edit prompt / the API returns (untrimmed body)
MaxMsgLen == 2
\* how many non-terminal decisions (e, r, invalid) one run processes
MaxDecisions == 2

\* ------------------------------------------------------------- text helpers

SeqsUpTo(S, n) == UNION {[1..k -> S] : k \in 0..n}

\* characters a message body is made of: an ordinary character, the double
\* quote and the backslash
MsgAlphabet == {"x", "\"", "\\"}

Texts == SeqsUpTo(MsgAlphabet, MaxMsgLen)

IsSpace(c) == c \in {" ", "\n"}

RECURSIVE TrimStart(_)
TrimStart(s) ==
  IF s = <<>> THEN s
  ELSE IF IsSpace(Head(s)) THEN TrimStart(Tail(s)) ELSE s

RECURSIVE TrimEnd(_)
TrimEnd(s) ==
  IF s = <<>> THEN s
  ELSE IF IsSpace(s[Len(s)]) THEN TrimEnd(SubSeq(s, 1, Len(s) - 1)) ELSE s

\* String.prototype.trim
Trim(s) == TrimEnd(TrimStart(s))

\* String.prototype.split('\n')
RECURSIVE SplitLines(_)
SplitLines(s) ==
  IF \A i \in 1..Len(s) : s[i] # "\n" THEN <<s>>
  ELSE LET i == CHOOSE k \in 1..Len(s) :
                  s[k] = "\n" /\ \A j \in 1..(k - 1) : s[j] # "\n"
       IN <<SubSeq(s, 1, i - 1)>> \o SplitLines(SubSeq(s, i + 1, Len(s)))

\* String.prototype.substring(from, to), zero-based, end exclusive, clipped
Substring(s, from, to) ==
  LET f == IF from > Len(s) THEN Len(s) ELSE from
      t == IF to > Len(s) THEN Len(s) ELSE to
  IN SubSeq(s, f + 1, t)

\* String.prototype.includes
Includes(s, sub) ==
  \E i \in 1..(Len(s) + 1) :
    i + Len(sub) - 1 <= Len(s) /\ SubSeq(s, i, i + Len(sub) - 1) = sub

\* Array.prototype.filter(l => l.length > 0)
RECURSIVE NonEmpty(_)
NonEmpty(ls) ==
  IF ls = <<>> THEN <<>>
  ELSE IF Len(Head(ls)) > 0 THEN <<Head(ls)>> \o NonEmpty(Tail(ls))
       ELSE NonEmpty(Tail(ls))

\* a comparison of the token as typed, without lower-casing
LowerChar_AsTyped(c) == c

\* String.prototype.toLowerCase on the letters a decision token can hold
LowerChar(c) ==
  CASE c = "A" -> "a" [] c = "E" -> "e" [] c = "R" -> "r" [] c = "C" -> "c"
    [] OTHER -> c

ToLowerCase(s) == [i \in 1..Len(s) |-> LowerChar(s[i])]

\* --------------------------------------------------------- the repository

\* The paths of the working tree, in the order git lists them (byte order).
PathAb == <<"a", "b">>
PathB == <<"b">>
PathCd == <<"c", "d">>
PathNm == <<"n", "o", "d", "e", "_", "m", "o", "d", "u", "l", "e", "s", "/", "x">>

Catalogue == <<PathAb, PathB, PathCd, PathNm>>

\* Two-character status XY of git status --porcelain (X index, Y work tree);
\* Absent: no such file; Clean: tracked and unchanged (not listed by git).
Absent == <<>>
Clean == <<" ", " ">>
WtModified == <<" ", "M">>
WtDeleted == <<" ", "D">>
Untracked == <<"?", "?">>
IxModified == <<"M", " ">>
IxDeleted == <<"D", " ">>
IxAdded == <<"A", " ">>

\* The states of the working tree a run can start in.
InitialTrees ==
  {t \in [1..Len(Catalogue) -> {Absent, Clean, WtModified, WtDeleted, Untracked, IxModified}] :
      /\ t[1] \in {Absent, WtModified, WtDeleted}
      /\ t[2] \in {Absent, Clean, WtModified, Untracked}
      /\ t[3] \in {Absent, WtModified, IxModified}
      /\ t[4] \in {Absent, WtModified}
      /\ t[3] = IxModified => (t[2] \in {Absent, Untracked} /\ t[4] = Absent)}

IsStaged(st) == st # Absent /\ st[1] \notin {" ", "?"}

PorcelainLine(st, path) == st \o <<" ">> \o path \o <<"\n">>
DiffLine(st, path) == <<"@">> \o path \o <<"\n">>
NameLine(st, path) == path \o <<"\n">>

\* what a git query prints for one entry: nothing unless the query lists it
EntryText(query, st, path) ==
  CASE query = "tracked" ->
         IF st \notin {Absent, Clean, Untracked} THEN PorcelainLine(st, path) ELSE <<>>
    [] query = "untracked" ->
         IF st = Untracked THEN PorcelainLine(st, path) ELSE <<>>
    [] query = "diff" -> IF IsStaged(st) THEN DiffLine(st, path) ELSE <<>>
    [] query = "names" -> IF IsStaged(st) THEN NameLine(st, path) ELSE <<>>

\* the output of a query over the entries i.. of tree t, in path order
RECURSIVE Render(_, _, _)
Render(t, i, query) ==
  IF i > Len(Catalogue) THEN <<>>
  ELSE EntryText(query, t[i], Catalogue[i]) \o Render(t, i + 1, query)

\* stdout of `git status --porcelain`: tracked changes, then untracked files
StatusPorcelain(t) == Render(t, 1, "tracked") \o Render(t, 1, "untracked")

\* stdout of `git diff --staged`: one hunk per staged entry
StagedDiff(t) == Render(t, 1, "diff")

\* stdout of `git diff --staged --name-only`
StagedNames(t) == Render(t, 1, "names")

\* status of an entry after `git add` of its path
AddedStatus(st) ==
  CASE st = WtModified -> IxModified
    [] st = WtDeleted -> IxDeleted
    [] st = Untracked -> IxAdded
    [] OTHER -> st

\* `git add "<p>"`: fails when p matches no file git knows or sees
GitAddOk(t, p) == \E i \in 1..Len(Catalogue) : Catalogue[i] = p /\ t[i] # Absent

GitAdd(t, p) ==
  [i \in 1..Len(Catalogue) |-> IF Catalogue[i] = p THEN AddedStatus(t[i]) ELSE t[i]]

\* status of an entry once the index has been committed
CommittedStatus(st) ==
  CASE st \in {IxModified, IxAdded} -> Clean
    [] st = IxDeleted -> Absent
    [] OTHER -> st

GitCommitTree(t) == [i \in 1..Len(Catalogue) |-> CommittedStatus(t[i])]

\* ------------------------------------------------ the program's functions

\* API keys a user can have: none typed (empty line) or a key
ApiKeys == {"", "sk-key"}

\* the configuration file: missing, not JSON, or a JSON object whose apiKey
\* is the given string ("" also stands for an object without apiKey)
ConfigFiles ==
  {[kind |-> "absent", apiKey |-> ""], [kind |-> "garbage", apiKey |-> ""]}
    \cup {[kind |-> "json", apiKey |-> k] : k \in ApiKeys}

\* loadConfig: the client (<<key>>) the constructor leaves in this.anthropic,
\* <<>> for null
LoadConfig(f) ==
  IF f.kind = "json" /\ f.apiKey # "" THEN <<f.apiKey>> ELSE <<>>

\* saveConfig: the file after writeFileSync
SaveConfig(apiKey) == [kind |-> "json", apiKey |-> apiKey]

\* one parsed line of git status: { status, filename }
ParseStatusLine(line) ==
  [status |-> Substring(line, 0, 2), filename |-> Substring(line, 3, Len(line))]

NodeModules == <<"n", "o", "d", "e", "_", "m", "o", "d", "u", "l", "e", "s", "/">>

\* the filter of getModifiedFiles
IsStageable(file) ==
  /\ \E c \in {"M", "A", "R"} : Includes(file.status, <<c>>)
  /\ ~Includes(file.filename, NodeModules)

RECURSIVE ParseAndFilter(_)
ParseAndFilter(ls) ==
  IF ls = <<>> THEN <<>>
  ELSE LET file == ParseStatusLine(Head(ls))
       IN (IF IsStageable(file) THEN <<file>> ELSE <<>>) \o ParseAndFilter(Tail(ls))

\* getModifiedFiles on the output of git status (ok = FALSE: execSync threw)
GetModifiedFiles(t, ok) ==
  IF ~ok THEN <<>>
  ELSE ParseAndFilter(NonEmpty(SplitLines(Trim(StatusPorcelain(t)))))

\* the forEach of autoStageFiles from file k on: git add one file after the
\* other, the first failure throws out of the loop (failAt: the call an
\* outside cause makes fail, 0 for none)
RECURSIVE AddEach(_, _, _, _, _)
AddEach(fs, k, failAt, t, log) ==
  IF k > Len(fs) THEN [staged |-> TRUE, tree |-> t, log |-> log, fault |-> FALSE]
  ELSE LET p == fs[k].filename
       IN IF k = failAt \/ ~GitAddOk(t, p)
          THEN [staged |-> FALSE, tree |-> t, log |-> Append(log, [path |-> p, ok |-> FALSE]),
                fault |-> GitAddOk(t, p)]
          ELSE AddEach(fs, k + 1, failAt, GitAdd(t, p), Append(log, [path |-> p, ok |-> TRUE]))

\* autoStageFiles: its return value, the tree it leaves, the git add calls, and
\* whether a git call failed for an outside cause
AutoStageFiles(t, statusOk, failAt) ==
  LET modifiedFiles == GetModifiedFiles(t, statusOk)
  IN IF Len(modifiedFiles) = 0
     THEN [staged |-> FALSE, tree |-> t, log |-> <<>>, fault |-> ~statusOk]
     ELSE AddEach(modifiedFiles, 1, failAt, t, <<>>)

\* getFileList (ok = FALSE: execSync threw)
GetFileList(t, ok) ==
  IF ~ok THEN <<>> ELSE NonEmpty(SplitLines(Trim(StagedNames(t))))

\* the directory the run starts in: names present, whether package.json
\* parses, and its dependencies / devDependencies
Listing ==
  [names |-> {"package.json", "go.mod"}, pkgOk |-> TRUE, deps |-> {"express"},
   devDeps |-> {"vue"}]

\* getProjectContext
GetProjectContext(d) ==
  IF "package.json" \in d.names
  THEN IF ~d.pkgOk THEN "general"
       ELSE IF "react" \in d.deps \cup d.devDeps THEN "React"
       ELSE IF "vue" \in d.deps \cup d.devDeps THEN "Vue"
       ELSE IF "express" \in d.deps THEN "Node.js/Express"
       ELSE "JavaScript/Node.js"
  ELSE IF "requirements.txt" \in d.names \/ "pyproject.toml" \in d.names THEN "Python"
  ELSE IF "Cargo.toml" \in d.names THEN "Rust"
  ELSE IF "go.mod" \in d.names THEN "Go"
  ELSE "general"

\* message.replace(/"/g, '\\"')
RECURSIVE EscapeQuotes(_)
EscapeQuotes(m) ==
  IF m = <<>> THEN <<>>
  ELSE (IF Head(m) = "\"" THEN <<"\\", "\"">> ELSE <<Head(m)>>) \o EscapeQuotes(Tail(m))

\* the text after `git commit -m ` in the command line handed to the shell
CommitArgText(message) == <<"\"">> \o EscapeQuotes(message) \o <<"\"">>

\* /bin/sh reading one word: inside double quotes a backslash escapes only
\* the dollar, the double quote and the backslash (and the backquote, which no
\* text of the model holds) and is otherwise kept; an unquoted backslash escapes
\* any character; a quote left open at the end of the command is a syntax error
RECURSIVE ShellWord(_, _, _)
ShellWord(t, quoted, acc) ==
  IF t = <<>> THEN [ok |-> ~quoted, arg |-> acc]
  ELSE LET c == Head(t)
       IN IF c = "\"" THEN ShellWord(Tail(t), ~quoted, acc)
          ELSE IF c = "\\" /\ Len(t) >= 2 /\ (~quoted \/ t[2] \in {"$", "\"", "\\"})
               THEN ShellWord(Tail(Tail(t)), quoted, Append(acc, t[2]))
               ELSE ShellWord(Tail(t), quoted, Append(acc, c))

\* execSync(`git commit -m "..."`): whether git ran, the message it was
\* given, and whether the commit was made (hookOk = FALSE: git refuses for a
\* reason of its own, e.g. a hook)
GitCommit(message, t, hookOk) ==
  LET w == ShellWord(CommitArgText(message), FALSE, <<>>)
  IN [ran |-> w.ok,
      arg |-> w.arg,
      ok |-> w.ok /\ w.arg # <<>> /\ StagedDiff(t) # <<>> /\ hookOk]

\* an edit prompt whose answer is dropped
EditedMessage_Dropped(newMessage, originalMessage) == originalMessage

\* an edit prompt that takes the empty line as the new message
EditedMessage_TakesEmpty(newMessage, originalMessage) == newMessage

\* getEditedMessage: newMessage || originalMessage
EditedMessage(newMessage, originalMessage) ==
  IF newMessage = <<>> THEN originalMessage ELSE newMessage

\* the API text returned as it came
GeneratedMessage_Untrimmed(raw) == raw

\* generateCommitMessage's return value: response.content[0].text.trim()
GeneratedMessage(raw) == Trim(raw)

\* what the API can answer: a body, bare or (the longest ones) wrapped in
\* white space
Responses ==
  Texts \cup {<<" ">> \o t \o <<"\n">> : t \in {u \in Texts : Len(u) = MaxMsgLen}}

\* what the user can type at the decision prompt
Tokens ==
  {<<"a">>, <<"A">>, <<"e">>, <<"E">>, <<"r">>, <<"R">>, <<"c">>, <<"C">>,
   <<"x">>, <<>>, <<" ", "a">>}

\* a switch whose case 'c' commits
Branch_CancelCommits(choice) ==
  CASE choice = <<"a">> -> "accept"
    [] choice = <<"e">> -> "edit"
    [] choice = <<"r">> -> "regenerate"
    [] choice = <<"c">> -> "accept"
    [] OTHER -> "invalid"

\* a switch whose default branch ends the loop
Branch_InvalidCancels(choice) ==
  CASE choice = <<"a">> -> "accept"
    [] choice = <<"e">> -> "edit"
    [] choice = <<"r">> -> "regenerate"
    [] OTHER -> "cancel"

\* the switch of run() on the lower-cased token
Branch(choice) ==
  CASE choice = <<"a">> -> "accept"
    [] choice = <<"e">> -> "edit"
    [] choice = <<"r">> -> "regenerate"
    [] choice = <<"c">> -> "cancel"
    [] OTHER -> "invalid"

\* getUserChoice resolves choice.toLowerCase(); run() switches on it
Decision(token) == Branch(ToLowerCase(token))

\* exit code of a run whose promise is rejected with nobody catching it:
\* 0 where Node only warns (14), 1 where it throws (15 and later)
UnhandledExit == {0, 1}

\* a test that takes every staged diff for empty
NoStagedChanges_Always(d) == TRUE

\* the test of line 250: !diff.trim()
NoStagedChanges(d) == Trim(d) = <<>>

\* lines 249-258 of run(): the staged diff, auto-staging when it is empty,
\* the staged diff again (firstOk, secondOk = FALSE: getStagedChanges threw);
\* queries and diffs count the calls of git status and of git diff --staged
FetchDiff(t, firstOk, statusOk, failAt, secondOk) ==
  LET first == StagedDiff(t)
      auto == AutoStageFiles(t, statusOk, failAt)
  IN IF ~firstOk
     THEN [outcome |-> "threw", diff |-> <<>>, tree |-> t, log |-> <<>>, queries |-> 0,
           diffs |-> 1, fault |-> TRUE]
     ELSE IF ~NoStagedChanges(first)
     THEN [outcome |-> "ok", diff |-> first, tree |-> t, log |-> <<>>, queries |-> 0,
           diffs |-> 1, fault |-> FALSE]
     ELSE IF ~auto.staged
     THEN [outcome |-> "nothing", diff |-> first, tree |-> auto.tree, log |-> auto.log,
           queries |-> 1, diffs |-> 1, fault |-> auto.fault]
     ELSE IF ~secondOk
     THEN [outcome |-> "threw", diff |-> first, tree |-> auto.tree, log |-> auto.log,
           queries |-> 1, diffs |-> 2, fault |-> TRUE]
     ELSE [outcome |-> "ok", diff |-> StagedDiff(auto.tree), tree |-> auto.tree,
           log |-> auto.log, queries |-> 1, diffs |-> 2, fault |-> FALSE]

\* exit codes of process.exit at lines 245, 255 and 296
NotRepoExit == 1
NoFilesExit == 1
\* a catch block that reports and lets the process end normally
ErrorExit_Normal == 1 - 1
ErrorExit == 1

\* a call of generate that leaves the change set out
GenerateArgs_NoFiles(d, f, p, ok) ==
  [diff |-> d, files |-> <<>>, projectType |-> p, ok |-> ok]

\* the arguments of generateCommitMessage(diff, files, projectType) at lines
\* 267 and 283, and whether the call returned
GenerateArgs(d, f, p, ok) ==
  [diff |-> d, files |-> f, projectType |-> p, ok |-> ok]

\* a loop that prompts again when the commit failed
AfterCommit_Retry(ok) == IF ok THEN "Committed" ELSE "Presenting"

\* where run() stands once commitChanges has returned (line 275: return),
\* whether the commit was made or the failure was caught
AfterCommit(ok) == "Committed"

\* ------------------------------------------------------------------- state

VARIABLES
  configFile,     \* content of ~/.ai-commit-config.json
  configWrites,   \* number of writeFileSync calls on it
  anthropic,      \* this.anthropic: <<>> (null) or <<apiKey>>
  isRepo,         \* whether the working directory is inside a git repository
  tree,           \* status of every path of Catalogue
  tree0,          \* tree at the start of the run
  commits,        \* messages of the commits created, oldest first
  pc,             \* where run() stands
  diff,           \* run()'s diff
  files,          \* run()'s files
  projectType,    \* run()'s projectType
  commitMessage,  \* run()'s commitMessage, the candidate
  exitCode,       \* exit code of the process, -1 while it runs
  stderr,         \* last message written with console.error ("" for none)
  input,          \* what the latest step read, if anything: <<[at, text]>>, the line
                  \* typed at a prompt (decide, edit) or the text the API returned
  nPrompts,       \* decision prompts answered
  rCount,         \* r decisions taken
  genArgs,        \* calls of generateCommitMessage in order: arguments, and ok
  inEffect,       \* the latest text the API returned (trimmed) or the user typed non-empty
  commitLog,      \* calls of commitChanges: message given, what git received, result
  addLog,         \* git add calls of autoStageFiles: path and result
  statusQueries,  \* git status calls
  diffQueries,    \* git diff --staged calls of getStagedChanges
  gitFault        \* whether a git call failed for a reason outside the model's tree

cfgVars == <<configFile, configWrites, anthropic>>
repoVars == <<isRepo, tree, tree0, commits>>
runVars == <<diff, files, projectType, commitMessage>>
exitVars == <<exitCode, stderr>>
genVars == <<genArgs, inEffect>>
gitLogVars == <<commitLog, addLog, statusQueries, diffQueries, gitFault>>

vars ==
  <<cfgVars, repoVars, runVars, exitVars, genVars, gitLogVars, pc, input, nPrompts, rCount>>

NoTree == [i \in 1..Len(Catalogue) |-> Absent]

Init ==
  /\ configFile \in ConfigFiles
  /\ configWrites = 0
  /\ anthropic = LoadConfig(configFile)
  /\ isRepo \in BOOLEAN
  /\ tree \in (IF isRepo THEN InitialTrees ELSE {NoTree})
  /\ tree0 = tree
  /\ commits = <<>>
  /\ pc = "start"
  /\ diff = <<>>
  /\ files = <<>>
  /\ projectType = ""
  /\ commitMessage = <<>>
  /\ exitCode = -1
  /\ stderr = ""
  /\ input = <<>>
  /\ nPrompts = 0
  /\ rCount = 0
  /\ genArgs = <<>>
  /\ inEffect = <<>>
  /\ commitLog = <<>>
  /\ addLog = <<>>
  /\ statusQueries = 0
  /\ diffQueries = 0
  /\ gitFault = FALSE

\* number of calls of generateCommitMessage so far
genCalls == Len(genArgs)

\* ----------------------------------------------------------------- actions

\* process.exit(code) after console.error(message), or the process ending
Exit(state, code, message) ==
  /\ pc' = state
  /\ exitCode' = code
  /\ stderr' = message

\* run(), lines 236-240: first-run setup when no client was built from the file
Startup ==
  /\ pc = "start"
  /\ IF anthropic = <<>>
     THEN \E apiKey \in ApiKeys :
            /\ configFile' = SaveConfig(apiKey)
            /\ configWrites' = configWrites + 1
            /\ anthropic' = <<apiKey>>
     ELSE UNCHANGED cfgVars
  /\ pc' = "checkRepo"
  /\ UNCHANGED <<repoVars, runVars, exitVars, genVars, gitLogVars, input, nPrompts, rCount>>

\* run(), lines 243-246: isGitRepo
CheckRepo ==
  /\ pc = "checkRepo"
  /\ IF isRepo
     THEN pc' = "fetchDiff" /\ UNCHANGED exitVars
     ELSE Exit("Aborted", NotRepoExit, "Not a git repository")
  /\ UNCHANGED <<cfgVars, repoVars, runVars, genVars, gitLogVars, input, nPrompts, rCount>>

\* run(), lines 249-258: getStagedChanges, autoStageFiles, getStagedChanges.
\* A throw of getStagedChanges is outside run()'s try: the promise is rejected.
StageAndDiff ==
  /\ pc = "fetchDiff"
  /\ \E firstOk \in BOOLEAN, statusOk \in BOOLEAN, failAt \in 0..Len(Catalogue),
        secondOk \in BOOLEAN, code \in UnhandledExit :
       LET r == FetchDiff(tree, firstOk, statusOk, failAt, secondOk)
       IN /\ tree' = r.tree
          /\ addLog' = r.log
          /\ statusQueries' = statusQueries + r.queries
          /\ diffQueries' = diffQueries + r.diffs
          /\ gitFault' = r.fault
          /\ CASE r.outcome = "ok" ->
                    diff' = r.diff /\ pc' = "context" /\ UNCHANGED exitVars
               [] r.outcome = "nothing" ->
                    /\ UNCHANGED diff
                    /\ Exit("Aborted", NoFilesExit, "No modified files found to commit.")
               [] r.outcome = "threw" ->
                    UNCHANGED diff /\ Exit("Aborted", code, "Failed to get staged changes")
  /\ UNCHANGED <<cfgVars, isRepo, tree0, commits, files, projectType, commitMessage,
                 genVars, commitLog, input, nPrompts, rCount>>

\* run(), lines 260-264: getFileList and getProjectContext
Context ==
  /\ pc = "context"
  /\ \E listOk \in BOOLEAN :
       /\ files' = GetFileList(tree, listOk)
       /\ gitFault' = (gitFault \/ ~listOk)
  /\ projectType' = GetProjectContext(Listing)
  /\ pc' = "AwaitingCandidate"
  /\ UNCHANGED <<cfgVars, repoVars, diff, commitMessage, exitVars, genVars, commitLog,
                 addLog, statusQueries, diffQueries, input, nPrompts, rCount>>

\* generateCommitMessage(diff, files, projectType), awaited at line 267 and at
\* line 283; a throw is caught at line 294.  The API refuses an empty key.
Generate ==
  /\ pc \in {"AwaitingCandidate", "Regenerating"}
  /\ \/ /\ anthropic # <<"">>
        /\ \E raw \in Responses :
             /\ commitMessage' = GeneratedMessage(raw)
             /\ inEffect' = Trim(raw)
             /\ input' = <<[at |-> "api", text |-> raw]>>
        /\ genArgs' = Append(genArgs, GenerateArgs(diff, files, projectType, TRUE))
        /\ pc' = "Presenting"
        /\ UNCHANGED exitVars
     \/ /\ genArgs' = Append(genArgs, GenerateArgs(diff, files, projectType, FALSE))
        /\ input' = <<>>
        /\ UNCHANGED <<commitMessage, inEffect>>
        /\ Exit("Aborted", ErrorExit, "Error: Failed to generate commit message")
  /\ UNCHANGED <<cfgVars, repoVars, diff, files, projectType, gitLogVars, nPrompts, rCount>>

\* case 'a': commitChanges(commitMessage); return
Accept ==
  /\ pc = "Presenting"
  /\ \E token \in Tokens, hookOk \in BOOLEAN :
       /\ Decision(token) = "accept"
       /\ input' = <<[at |-> "decide", text |-> token]>>
       /\ LET g == GitCommit(commitMessage, tree, hookOk)
          IN /\ commitLog' = Append(commitLog,
                  [message |-> commitMessage, ran |-> g.ran, arg |-> g.arg, ok |-> g.ok])
             /\ commits' = IF g.ok THEN Append(commits, g.arg) ELSE commits
             /\ tree' = IF g.ok THEN GitCommitTree(tree) ELSE tree
             /\ Exit(AfterCommit(g.ok), 0, IF g.ok THEN stderr ELSE "Failed to commit")
  /\ nPrompts' = nPrompts + 1
  /\ UNCHANGED <<cfgVars, isRepo, tree0, runVars, genVars, addLog, statusQueries,
                 diffQueries, gitFault, rCount>>

\* case 'e', first half: the edit prompt is shown
Edit ==
  /\ pc = "Presenting"
  /\ nPrompts < MaxDecisions
  /\ \E token \in Tokens : Decision(token) = "edit" /\ input' = <<[at |-> "decide", text |-> token]>>
  /\ pc' = "Editing"
  /\ nPrompts' = nPrompts + 1
  /\ UNCHANGED <<cfgVars, repoVars, runVars, exitVars, genVars, gitLogVars, rCount>>

\* case 'e', second half: commitMessage = await getEditedMessage(commitMessage)
EditSubmit ==
  /\ pc = "Editing"
  /\ \E newMessage \in Texts :
       /\ commitMessage' = EditedMessage(newMessage, commitMessage)
       /\ inEffect' = IF Len(newMessage) > 0 THEN newMessage ELSE inEffect
       /\ input' = <<[at |-> "edit", text |-> newMessage]>>
  /\ pc' = "Presenting"
  /\ UNCHANGED <<cfgVars, repoVars, diff, files, projectType, exitVars, genArgs, gitLogVars,
                 nPrompts, rCount>>

\* case 'r': the call of generateCommitMessage is the step Generate
Regenerate ==
  /\ pc = "Presenting"
  /\ nPrompts < MaxDecisions
  /\ \E token \in Tokens : Decision(token) = "regenerate" /\ input' = <<[at |-> "decide", text |-> token]>>
  /\ pc' = "Regenerating"
  /\ rCount' = rCount + 1
  /\ nPrompts' = nPrompts + 1
  /\ UNCHANGED <<cfgVars, repoVars, runVars, exitVars, genVars, gitLogVars>>

\* case 'c': return
Cancel ==
  /\ pc = "Presenting"
  /\ \E token \in Tokens : Decision(token) = "cancel" /\ input' = <<[at |-> "decide", text |-> token]>>
  /\ Exit("Cancelled", 0, stderr)
  /\ nPrompts' = nPrompts + 1
  /\ UNCHANGED <<cfgVars, repoVars, runVars, genVars, gitLogVars, rCount>>

\* default: the loop prompts again
Invalid ==
  /\ pc = "Presenting"
  /\ nPrompts < MaxDecisions
  /\ \E token \in Tokens : Decision(token) = "invalid" /\ input' = <<[at |-> "decide", text |-> token]>>
  /\ pc' = "Presenting"
  /\ nPrompts' = nPrompts + 1
  /\ UNCHANGED <<cfgVars, repoVars, runVars, exitVars, genVars, gitLogVars, rCount>>

Next ==
  \/ Startup
  \/ CheckRepo
  \/ StageAndDiff
  \/ Context
  \/ Generate
  \/ Accept
  \/ Edit
  \/ EditSubmit
  \/ Regenerate
  \/ Cancel
  \/ Invalid

Spec == Init /\ [][Next]_vars

\* The run with its awaits resolving: the API call returns or throws
\* (lines 267, 283), the edit prompt is answered (line 278), and a user who
\* keeps being prompted eventually types a or c (line 270).
LiveSpec ==
  /\ Spec
  /\ WF_vars(Generate)
  /\ WF_vars(EditSubmit)
  /\ SF_vars(Accept \/ Cancel)

\* ------------------------------------------------------------------ claims

\* the decision tokens of the specification, upper and lower case
AcceptTokens == {<<"a">>, <<"A">>}
EditTokens == {<<"e">>, <<"E">>}
RegenerateTokens == {<<"r">>, <<"R">>}
CancelTokens == {<<"c">>, <<"C">>}
ValidTokens == AcceptTokens \cup EditTokens \cup RegenerateTokens \cup CancelTokens

\* a step that answers the decision prompt
DecisionStep == pc = "Presenting" /\ nPrompts' = nPrompts + 1

\* the line typed in the step
Typed == input'[1].text

\* the calls the loop could make on git and on the API
Effects == <<tree, commits, commitLog, addLog, statusQueries, diffQueries, genArgs>>

Terminal == {"Committed", "Cancelled", "Aborted"}

C2_CancelCommitsNothing ==
  /\ [](pc = "Cancelled" => commitLog = <<>> /\ commits = <<>>)
  /\ [][(DecisionStep /\ Typed \in CancelTokens)
          => (pc' = "Cancelled" /\ UNCHANGED Effects)]_vars

\* a cancel that follows a regenerate and one more decision
C2_Witness ==
  /\ pc = "Cancelled"
  /\ nPrompts = 3
  /\ rCount >= 1
  /\ input[1].text = <<"C">>

\* C3: at the decision prompt a, e, r, c act the same in upper and lower case;
\* any other token leaves candidate, diff, change set, git and the API calls
\* untouched and leads back to Presenting, so invalid tokens never end the loop.
C3_InvalidTokenReprompts ==
  [][DecisionStep =>
       /\ Typed \in AcceptTokens => pc' = "Committed"
       /\ Typed \in EditTokens => pc' = "Editing"
       /\ Typed \in RegenerateTokens => pc' = "Regenerating"
       /\ Typed \in CancelTokens => pc' = "Cancelled"
       /\ Typed \notin ValidTokens =>
            /\ pc' = "Presenting"
            /\ UNCHANGED <<commitMessage, diff, files, projectType, exitCode>>
            /\ UNCHANGED Effects]_vars

\* the prompt shown again after two invalid tokens
C3_Witness ==
  /\ pc = "Presenting"
  /\ nPrompts = 2
  /\ rCount = 0
  /\ genCalls = 1
  /\ input = <<[at |-> "decide", text |-> <<" ", "a">>]>>

\* C4: on `e` the edit prompt is shown without any call on git or the API; an
\* empty line leaves the candidate as it was, any other line becomes the
\* candidate; the loop is back in Presenting.
C4_EditReplacesOrKeeps ==
  [][/\ (DecisionStep /\ Typed \in EditTokens)
          => (pc' = "Editing" /\ UNCHANGED commitMessage /\ UNCHANGED Effects)
     /\ pc = "Editing"
          => /\ pc' = "Presenting"
             /\ commitMessage' = (IF Typed = <<>> THEN commitMessage ELSE Typed)
             /\ UNCHANGED Effects]_vars

\* an empty line at the edit prompt, the candidate being non-empty
C4_Witness ==
  /\ pc = "Presenting"
  /\ input = <<[at |-> "edit", text |-> <<>>]>>
  /\ commitMessage # <<>>

\* C5: every `r` is followed by exactly one call of generate, whose trimmed
\* result becomes the candidate whatever the candidate was; the calls of
\* generate number 1 plus the r decisions (one less while the call for the
\* latest r is pending), and no other step calls generate.
C5_RegenerateCallsGenerate ==
  /\ [](/\ pc \in {"start", "checkRepo", "fetchDiff", "context", "AwaitingCandidate"}
             => genCalls = 0 /\ rCount = 0
        /\ pc = "Regenerating" => genCalls = rCount
        /\ pc \in {"Presenting", "Editing", "Committed", "Cancelled"}
             => genCalls = 1 + rCount
        /\ (pc = "Aborted" /\ genCalls > 0) => genCalls = 1 + rCount)
  /\ [][/\ (DecisionStep /\ Typed \in RegenerateTokens)
             => (pc' = "Regenerating" /\ rCount' = rCount + 1 /\ UNCHANGED genArgs)
        /\ pc = "Regenerating"
             => /\ genCalls' = genCalls + 1
                /\ pc' = "Presenting" => commitMessage' = Trim(Typed)
        /\ pc \notin {"AwaitingCandidate", "Regenerating"} => UNCHANGED genArgs]_vars

\* the second regenerate has returned
C5_Witness ==
  /\ pc = "Presenting"
  /\ rCount = 2
  /\ genCalls = 3
  /\ input[1].at = "api"
  /\ commitMessage = Trim(input[1].text)

\* C6: the exit code is 0 exactly when the run ended with a commit created or
\* with a cancel, and every failure has printed a message.
C6_ExitZeroIffCommitOrCancel ==
  pc \in Terminal =>
    /\ exitCode = 0 <=> (pc = "Cancelled" \/ (pc = "Committed" /\ commitLog[1].ok))
    /\ exitCode # 0 => stderr # ""

\* whether a path lies under node_modules
UnderNodeModules(path) ==
  Len(path) >= Len(NodeModules) /\ SubSeq(path, 1, Len(NodeModules)) = NodeModules

NothingStaged(t) == \A i \in 1..Len(Catalogue) : ~IsStaged(t[i])

\* the entries auto-stage is to stage: modified, not under node_modules
ToAutoStage(t) ==
  {i \in 1..Len(Catalogue) : t[i] = WtModified /\ ~UnderNodeModules(Catalogue[i])}

PastStaging == pc \notin {"start", "checkRepo", "fetchDiff"}

\* C7: with nothing staged and entries to stage, and git answering every call,
\* the paths staged are exactly those entries, staging succeeds, and the
\* first generate call receives the diff of the index so staged.
C7_AutoStageStagesExactly ==
  (PastStaging /\ isRepo /\ ~gitFault /\ NothingStaged(tree0) /\ ToAutoStage(tree0) # {}) =>
    /\ {addLog[k].path : k \in {j \in 1..Len(addLog) : addLog[j].ok}}
         = {Catalogue[i] : i \in ToAutoStage(tree0)}
    /\ \A k \in 1..Len(addLog) : addLog[k].ok
    /\ stderr # "No modified files found to commit."
    /\ genCalls >= 1 =>
         genArgs[1].diff =
           StagedDiff([i \in 1..Len(Catalogue) |->
                         IF i \in ToAutoStage(tree0) THEN IxModified ELSE tree0[i]])

\* C8: with nothing staged and nothing to stage, the staged diff having been
\* read, the run has ended with a non-zero exit code without any generate
\* call, decision prompt, git add or commit.
C8_NothingToCommitStops ==
  (/\ PastStaging /\ isRepo /\ stderr # "Failed to get staged changes"
   /\ NothingStaged(tree0) /\ ToAutoStage(tree0) = {}) =>
    /\ pc = "Aborted"
    /\ exitCode > 0
    /\ genCalls = 0
    /\ nPrompts = 0
    /\ addLog = <<>>
    /\ commitLog = <<>>
    /\ tree = tree0

\* C9: whatever the candidate, git is run and receives as its -m argument
\* exactly the message commitChanges was given.
C9_GitReceivesCandidate ==
  \A k \in 1..Len(commitLog) :
    commitLog[k].ran /\ commitLog[k].arg = commitLog[k].message

\* C10: once a generate call has failed, it is the last one, the run has
\* aborted with a report and a non-zero exit code, and no commit was attempted
\* or made.
C10_GenerateFailureAborts ==
  \A k \in 1..Len(genArgs) :
    ~genArgs[k].ok =>
      /\ k = Len(genArgs)
      /\ pc = "Aborted"
      /\ exitCode > 0
      /\ stderr = "Error: Failed to generate commit message"
      /\ commitLog = <<>>
      /\ commits = <<>>

\* a regenerate call that failed
C10_Witness ==
  /\ pc = "Aborted"
  /\ rCount = 1
  /\ genCalls = 2
  /\ genArgs[1].ok
  /\ ~genArgs[2].ok

\* C11: commitChanges is called at most once in a run; once it has been called
\* the run is over (state Committed, process ended) and no step follows: no
\* prompt, no generate call, no second commit call; a failed call has been
\* reported and has created no commit.
C11_CommitFailureEndsLoop ==
  /\ [](/\ Len(commitLog) <= 1
        /\ commitLog # <<>> => (pc = "Committed" /\ exitCode # -1)
        /\ (commitLog # <<>> /\ ~commitLog[1].ok)
             => (stderr = "Failed to commit" /\ commits = <<>>))
  /\ [][commitLog = <<>>]_vars

\* a commit call that failed after an earlier decision
C11_Witness ==
  /\ pc = "Committed"
  /\ nPrompts >= 2
  /\ Len(commitLog) = 1
  /\ ~commitLog[1].ok
  /\ stderr = "Failed to commit"

\* the states of the resolution loop and the two ends it leads to
LoopStates ==
  {"AwaitingCandidate", "Presenting", "Editing", "Regenerating", "Committed", "Cancelled"}

\* no credential: no client was built from the file (null), or the client was
\* built from the empty line typed at the first-run prompt
NoCredential == anthropic \in {<<>>, <<"">>}

\* C12: without a credential (none in the configuration file, none typed at
\* the first-run prompt) the run never enters the resolution loop: no generate
\* call and no decision prompt; and any generate call is made with a client
\* built from the file's key or from the line typed at the prompt.
C12_NoCredentialNoLoop ==
  /\ NoCredential => (pc \notin LoopStates /\ genCalls = 0 /\ nPrompts = 0)
  /\ genCalls > 0 => anthropic # <<>>

\* a step that writes the configuration file
WritesConfig == configWrites' # configWrites \/ configFile' # configFile

\* C13: the configuration file is written at most once, and only by the
\* first-run setup of a run that found no key in it, with the key the user
\* supplied; a run that loaded a key never writes it, and no step that ends
\* the run (not a repository, no changes, generation or commit failure, or
\* any other end) writes it.
C13_ConfigWrittenOnceAtSetup ==
  /\ [](configWrites <= 1)
  /\ [][/\ WritesConfig =>
             /\ pc = "start"
             /\ configWrites = 0
             /\ LoadConfig(configFile) = <<>>
             /\ configFile' = SaveConfig(anthropic'[1])
             /\ LoadConfig(configFile') # <<>>
        /\ LoadConfig(configFile) # <<>> => ~WritesConfig
        /\ pc' \in Terminal => ~WritesConfig]_vars

\* the states between loop entry and the terminal action
InLoop == pc \in {"AwaitingCandidate", "Presenting", "Editing", "Regenerating"}

\* C14: the staged diff is read once, or twice when git status was queried for
\* auto-staging in between; every generate call, initial or regenerate, gets
\* the diff, files and projectType the run holds, which are those of the first
\* call; inside the loop no step changes them, queries git or stages, and the
\* only step that touches the repository is the commit that ends the loop.
C14_GenerateInputsFixed ==
  /\ [](/\ diffQueries <= 1 + statusQueries
        /\ statusQueries <= 1
        /\ \A k \in 1..Len(genArgs) :
             /\ genArgs[k].diff = diff
             /\ genArgs[k].files = files
             /\ genArgs[k].projectType = projectType
             /\ genArgs[k].diff = genArgs[1].diff
             /\ genArgs[k].files = genArgs[1].files
             /\ genArgs[k].projectType = genArgs[1].projectType)
  /\ [][InLoop =>
          /\ UNCHANGED <<diff, files, projectType>>
          /\ UNCHANGED <<addLog, statusQueries, diffQueries>>
          /\ (tree' # tree \/ commits' # commits) => pc' = "Committed"]_vars

\* three generate calls in a run that auto-staged and read the diff again
C14_Witness ==
  /\ pc = "Committed"
  /\ genCalls = 3
  /\ statusQueries = 1
  /\ diffQueries = 2
  /\ addLog # <<>>
  /\ files # <<>>
  /\ StagedDiff(tree0) = <<>>

\* C15: in a run that starts with something staged, git status is never
\* queried and git add is never called; the diff the run holds and hands to
\* generate is the diff of the index as the user prepared it, the index stays
\* as it was until the commit, and the commit records exactly that index.
C15_StagedIndexLeftAlone ==
  (isRepo /\ ~NothingStaged(tree0)) =>
    /\ statusQueries = 0
    /\ addLog = <<>>
    /\ diffQueries <= 1
    /\ (PastStaging /\ ~gitFault) => diff = StagedDiff(tree0)
    /\ \A k \in 1..Len(genArgs) : genArgs[k].diff = StagedDiff(tree0)
    /\ tree = IF commits # <<>> THEN GitCommitTree(tree0) ELSE tree0

\* a commit of the staged file, the modified one left unstaged
C15_Witness ==
  /\ pc = "Committed"
  /\ tree0[3] = IxModified
  /\ tree0[1] = WtModified
  /\ commits # <<>>
  /\ tree[3] = Clean
  /\ tree[1] = WtModified

\* the paths autoStageFiles selected in the tree the run started with
SelectedForStaging ==
  LET fs == GetModifiedFiles(tree0, TRUE) IN {fs[k].filename : k \in 1..Len(fs)}

\* the tree with every selected path staged
AllStagedTree ==
  [i \in 1..Len(Catalogue) |->
     IF Catalogue[i] \in SelectedForStaging THEN AddedStatus(tree0[i]) ELSE tree0[i]]

\* C16: a git add that fails ends the staging attempt and the run, with no
\* generate call and no commit; and a run that has ended in failure leaves the
\* index as it found it or with all the selected paths staged, never with
\* some of them only.
C16_NoPartialStaging ==
  /\ (\E k \in 1..Len(addLog) : ~addLog[k].ok) =>
       /\ ~addLog[Len(addLog)].ok
       /\ \A k \in 1..(Len(addLog) - 1) : addLog[k].ok
       /\ pc = "Aborted"
       /\ exitCode > 0
       /\ genCalls = 0
       /\ commitLog = <<>>
  /\ pc = "Aborted" => tree \in {tree0, AllStagedTree}

\* the latest generate call threw
GenerateFailed == genCalls > 0 /\ ~genArgs[genCalls].ok

\* C17: from AwaitingCandidate the loop goes to Presenting, or aborts when
\* generate fails; every step from Presenting answers the prompt and ends in
\* Committed exactly on a/A, in Cancelled exactly on c/C, and otherwise leads
\* back to Presenting (directly, through Editing, or through Regenerating,
\* which aborts only when generate fails); no step is taken from a terminal
\* state; and, the awaits resolving and the user eventually typing a or c, a
\* run that has entered the loop reaches Committed or Cancelled unless a
\* generate call failed.
C17_LoopStateMachine ==
  /\ [][/\ pc = "AwaitingCandidate" => pc' \in {"Presenting", "Aborted"}
        /\ pc = "Presenting" =>
             /\ DecisionStep
             /\ pc' = "Committed" <=> Typed \in AcceptTokens
             /\ pc' = "Cancelled" <=> Typed \in CancelTokens
             /\ pc' = "Editing" <=> Typed \in EditTokens
             /\ pc' = "Regenerating" <=> Typed \in RegenerateTokens
             /\ pc' = "Presenting" <=> Typed \notin ValidTokens
        /\ pc = "Editing" => pc' = "Presenting"
        /\ pc = "Regenerating" => pc' \in {"Presenting", "Aborted"}
        /\ (InLoop /\ pc' = "Aborted") => GenerateFailed'
        /\ pc \notin Terminal]_vars
  /\ (pc = "AwaitingCandidate") ~>
       (pc \in {"Committed", "Cancelled"} \/ (pc = "Aborted" /\ GenerateFailed))

\* a cancel after two decisions that led back to the prompt without a
\* regenerate
C17_Witness ==
  /\ pc = "Cancelled"
  /\ nPrompts = 3
  /\ rCount = 0
  /\ genCalls = 1
  /\ input[1].text \in CancelTokens

\* C18: git answering every call, the run is in the resolution loop, or past
\* it, only with a non-empty diff, and every generate call was handed a
\* non-empty diff: after an auto-stage that reported success the diff read
\* again is not empty.
C18_GenerateDiffNonEmpty ==
  ~gitFault =>
    /\ pc \in LoopStates => ~NoStagedChanges(diff)
    /\ \A k \in 1..Len(genArgs) : ~NoStagedChanges(genArgs[k].diff)

====
